---- MODULE Spec2Model ----
(***************************************************************************)
(* Model of the Firestore export / import tools (src/export.py and         *)
(* src/import.py): the value codec, the importer's construction and its    *)
(* per-document / per-collection import loops, the exporter's collection   *)
(* loop, and the confirmation prompt.                                      *)
(*                                                                         *)
(* Each tool is a sequential program; its position is kept in pc.  The     *)
(* database client and the file system are the environment: what a query,  *)
(* a file read or a write returns (or raises) is chosen with \E at the     *)
(* step that makes the call.                                               *)
(***************************************************************************)
EXTENDS Integers, Sequences, FiniteSets, TLC

VARIABLES
    tool,             \* which program the behaviour is a run of; in a run
                      \* of main, the function main is in
    pc,               \* position of that program
    \* ---- FirestoreImporter fields and import_selected_collections locals
    dry_run,          \* self.dry_run
    overwrite,        \* overwrite argument
    collection_names, \* collection_names argument
    ci,               \* position of "for collection_name in collection_names"
    total_documents,  \* import_collection: len(documents)
    doc_iter,         \* the iterator of "for doc_info in documents": the
                      \* records of documents not visited yet
    imported_count, skipped_count, error_count,
    results,          \* import_selected_collections: results
    target,           \* the target database: collection -> id -> data
    target0,          \* the target database when the run started
    written,          \* number of set(..) calls that succeeded
    outcome,          \* what the last import step did
    report_saved,     \* the import report file has been written
    records_read,     \* number of document records read from files so far
    \* ---- FirestoreImporter.__init__
    service_account_path, \* self.service_account_path
    path_exists,          \* what os.path.exists answers for that path
    database_name,        \* self.database_name
    importer_db,          \* self.db
    app_initialized,      \* firebase_admin holds an initialised app
    firebase_calls,       \* number of firebase_admin / firestore calls made
    raised,               \* the exception that left the constructor
    \* ---- FirestoreExporter
    sample_limit,         \* sample_limit argument
    collections,          \* export_database_structure: collections
    ei,                   \* position of "for collection_name in collections"
    database_structure,   \* export_database_structure: database_structure
    source,               \* the documents of the collection queried last
    attempted,            \* the collections gone through, and how each ended
    structure_file,       \* complete_database_structure.json
    \* ---- confirm_import
    selected_collections, \* selected_collections argument
    confirmations,        \* the answers read from the console so far
    confirm_result,       \* what confirm_import returned
    \* ---- select_collections
    available_collections, \* available_collections argument
    selections,           \* the lines read from the console so far
    selected,             \* select_collections: selected
    select_result,        \* what select_collections returned
    \* ---- main of import.py
    exit_status,          \* the status the process exited with
    \* ---- value codec
    doc, serialized, deserialized

vars == <<tool, pc, dry_run, overwrite, collection_names, ci,
          total_documents, doc_iter,
          imported_count, skipped_count, error_count, results, target,
          target0, written, outcome, report_saved, records_read,
          service_account_path, path_exists, database_name, importer_db,
          app_initialized, firebase_calls, raised,
          sample_limit, collections, ei, database_structure, source,
          attempted, structure_file,
          selected_collections, confirmations, confirm_result,
          available_collections, selections, selected, select_result,
          exit_status,
          doc, serialized, deserialized>>

importVars == <<dry_run, overwrite, collection_names, ci, total_documents,
                doc_iter,
                imported_count, skipped_count, error_count, results, target,
                target0, written, outcome,
                report_saved, records_read>>
initVars == <<service_account_path, path_exists, database_name, importer_db,
              app_initialized, firebase_calls, raised>>
exportVars == <<sample_limit, collections, ei, database_structure, source,
                attempted, structure_file>>
confirmVars == <<selected_collections, confirmations, confirm_result>>
selectVars == <<available_collections, selections, selected, select_result>>
mainVars == <<exit_status>>
codecVars == <<doc, serialized, deserialized>>

\* what a step of one tool leaves alone: the variables of the other tools
ImportFrame ==
    UNCHANGED <<tool, initVars, exportVars, confirmVars, selectVars,
                codecVars, mainVars>>
ConstructFrame ==
    UNCHANGED <<tool, importVars, exportVars, confirmVars, selectVars,
                codecVars, mainVars>>
ExportFrame ==
    UNCHANGED <<tool, importVars, initVars, confirmVars, selectVars,
                codecVars, mainVars>>
ConfirmFrame ==
    UNCHANGED <<tool, importVars, initVars, exportVars, selectVars,
                codecVars, mainVars>>
SelectFrame ==
    UNCHANGED <<tool, importVars, initVars, exportVars, confirmVars,
                codecVars, mainVars>>
CodecFrame ==
    UNCHANGED <<tool, importVars, initVars, exportVars, confirmVars,
                selectVars,
                mainVars>>

None == "None"

-----------------------------------------------------------------------------
(* A behaviour is a run of one tool; the variables of the other tools keep *)
(* these values throughout.                                                *)

ImportIdleButDryRun ==
    /\ overwrite = FALSE /\ collection_names = <<>>
    /\ ci = 0 /\ total_documents = 0 /\ doc_iter = <<>>
    /\ imported_count = 0 /\ skipped_count = 0 /\ error_count = 0
    /\ results = None /\ target = None /\ target0 = None
    /\ written = 0
    /\ outcome = None /\ report_saved = FALSE /\ records_read = 0

ImportIdle == dry_run = FALSE /\ ImportIdleButDryRun

ConstructIdle ==
    /\ service_account_path = <<>> /\ path_exists = FALSE
    /\ database_name = None /\ importer_db = None
    /\ app_initialized = FALSE /\ firebase_calls = 0 /\ raised = None

ExportIdle ==
    /\ sample_limit = 0 /\ collections = <<>> /\ ei = 0
    /\ database_structure = None /\ source = None /\ attempted = <<>>
    /\ structure_file = None

ConfirmIdle ==
    /\ selected_collections = <<>> /\ confirmations = <<>>
    /\ confirm_result = None

SelectIdle ==
    /\ available_collections = <<>> /\ selections = <<>>
    /\ selected = None /\ select_result = None

MainIdle == exit_status = None

CodecIdle ==
    /\ doc = None /\ serialized = None /\ deserialized = None


-----------------------------------------------------------------------------
(* Strings are sequences of characters, so that prefixes, basenames and    *)
(* case folding are computed and not assumed.                              *)

REF_PREFIX == <<"r", "e", "f", ":">>

\* str.startswith(prefix)
startswith(s, prefix) ==
    /\ Len(s) >= Len(prefix)
    /\ SubSeq(s, 1, Len(prefix)) = prefix

-----------------------------------------------------------------------------
(* Value codec.  A value is a tagged record [t, v]:                        *)
(*   null, bool, num, str   scalars                                        *)
(*   list                   v is a sequence of values                      *)
(*   map                    v is a function from keys to values            *)
(*   ts                     native timestamp, v its epoch seconds          *)
(*   ref                    native document reference, v its id            *)

Null == [t |-> "null", v |-> 0]
Bool(b) == [t |-> "bool", v |-> b]
Num(n) == [t |-> "num", v |-> n]
Str(s) == [t |-> "str", v |-> s]
List(s) == [t |-> "list", v |-> s]
Map(f) == [t |-> "map", v |-> f]
Timestamp(n) == [t |-> "ts", v |-> n]
Reference(id) == [t |-> "ref", v |-> id]

RECURSIVE serialize_firestore_data(_)
serialize_firestore_data(data) ==
    IF data.t = "map"
    THEN Map([key \in DOMAIN data.v |-> serialize_firestore_data(data.v[key])])
    ELSE IF data.t = "list"
    THEN List([i \in DOMAIN data.v |-> serialize_firestore_data(data.v[i])])
    ELSE IF data.t = "ts"
    THEN Num(data.v)
    ELSE IF data.t = "ref"
    THEN Str(REF_PREFIX \o data.v)
    ELSE data

\* a deserializer that rebuilds a reference from a "ref:" string
RECURSIVE deserialize_rebuilding_refs(_)
deserialize_rebuilding_refs(data) ==
    IF data.t = "map"
    THEN Map([key \in DOMAIN data.v |-> deserialize_rebuilding_refs(data.v[key])])
    ELSE IF data.t = "list"
    THEN List([i \in DOMAIN data.v |-> deserialize_rebuilding_refs(data.v[i])])
    ELSE IF data.t = "str" /\ startswith(data.v, REF_PREFIX)
    THEN Reference(SubSeq(data.v, Len(REF_PREFIX) + 1, Len(data.v)))
    ELSE data

RECURSIVE deserialize_firestore_data(_)
deserialize_firestore_data(data) ==
    IF data.t = "map"
    THEN Map([key \in DOMAIN data.v |-> deserialize_firestore_data(data.v[key])])
    ELSE IF data.t = "list"
    THEN List([i \in DOMAIN data.v |-> deserialize_firestore_data(data.v[i])])
    ELSE IF data.t = "str" /\ startswith(data.v, REF_PREFIX)
    THEN data
    ELSE data

-----------------------------------------------------------------------------
(* The importer: import_selected_collections and import_collection.        *)

MaxRecords == 3       \* most document records read from files in one run
MaxSelected == 2      \* longest list of requested collections

CollectionNames == {"orders", "users"}
DocIds == {"a", "b"}
Missing == [t |-> "missing", v |-> 0]  \* the target holds no document under that id

\* the data of the documents already in the target, and of those in the files
OldData == Map([k \in {"k"} |-> Num(1)])
NewData == Map([k \in {"k"} |-> List(<<Str(REF_PREFIX \o <<"a">>), Num(2)>>)])

\* the entries of sample_documents: document records, and records that lack
\* the id or the data key
DocRecords ==
    {[id |-> i, data |-> NewData] : i \in DocIds}
        \cup {[data |-> NewData], [id |-> "a"]}

\* the target database before the run: in every collection document "a"
\* exists and document "b" does not
InitialTarget ==
    [c \in CollectionNames |->
        [i \in DocIds |-> IF i = "a" THEN OldData ELSE Missing]]

SeqsUpTo(S, n) == UNION {[1..k -> S] : k \in 0..n}

\* what load_collection_data finds for a collection: no file, a JSON object
\* without the sample_documents key, or an export record
Absent == [file |-> "absent"]
NoSampleDocuments == [collection_name |-> "x"]
FileContents(most) ==
    {Absent, NoSampleDocuments}
        \cup {[sample_documents |-> d] : d \in SeqsUpTo(DocRecords, most)}

EmptySummary(names) ==
    [total_collections |-> Len(names), successful_imports |-> 0,
     failed_imports |-> 0, total_documents |-> 0, total_imported |-> 0,
     total_skipped |-> 0, total_errors |-> 0]

Put(f, k, e) == [x \in DOMAIN f \cup {k} |-> IF x = k THEN e ELSE f[x]]

NoOutcome == [kind |-> "none"]

\* line 160: the target is consulted and written only outside dry-run mode
TouchesTargetAlways(dry) == TRUE
TouchesTarget(dry) == ~dry

\* line 164: an existing document is skipped unless overwrite is set
SkipsExistingWhenOverwrite(exists, ow) == exists /\ ow
SkipsExisting(exists, ow) == exists /\ ~ow

\* line 179: a failed document is counted once
ErrorNotCounted(n) == n
CountError(n) == n + 1

\* line 166: a skipped document is counted once
SkipNotCounted(n) == n
CountSkip(n) == n + 1

\* line 236: a failed collection is counted once
FailureCountedTwice(n) == n + 2
CountFailure(n) == n + 1

\* lines 230-236: the except branch of import_selected_collections
CollectionFailed(name, e) ==
    /\ results' = [results EXCEPT
           !.collections = Put(@, name, [error |-> e]),
           !.summary.failed_imports = CountFailure(@)]
    /\ ci' = ci + 1
    /\ pc' = "collections"

\* the locals of import_collection are gone once it has returned or raised
LocalsGone ==
    /\ total_documents' = 0 /\ doc_iter' = <<>>
    /\ imported_count' = 0 /\ skipped_count' = 0 /\ error_count' = 0

ImportInit ==
    /\ tool = "import"
    /\ pc = "start"
    /\ dry_run \in BOOLEAN
    /\ overwrite \in BOOLEAN
    /\ collection_names \in SeqsUpTo(CollectionNames, MaxSelected)
    /\ target = InitialTarget
    /\ target0 = target
    /\ ci = 0 /\ total_documents = 0 /\ doc_iter = <<>>
    /\ imported_count = 0 /\ skipped_count = 0 /\ error_count = 0
    /\ results = None
    /\ written = 0
    /\ outcome = NoOutcome
    /\ report_saved = FALSE
    /\ records_read = 0

\* import_selected_collections, lines 202-218
import_selected_collections ==
    /\ ImportFrame
    /\ tool = "import" /\ pc = "start"
    /\ results' = [project_id |-> "project", dry_run |-> dry_run,
                   collections |-> <<>>,
                   summary |-> EmptySummary(collection_names)]
    /\ ci' = 1
    /\ pc' = "collections"
    /\ outcome' = NoOutcome
    /\ UNCHANGED <<dry_run, overwrite, collection_names, total_documents,
                   doc_iter, imported_count, skipped_count, error_count,
                   target, target0, written, report_saved, records_read>>

\* import_collection, lines 140-153, called from line 222
import_collection ==
    /\ ImportFrame
    /\ tool = "import" /\ pc = "collections"
    /\ ci <= Len(collection_names)
    /\ LET collection_name == collection_names[ci] IN
       \E collection_data \in FileContents(MaxRecords - records_read) :
          IF collection_data = Absent
          THEN /\ CollectionFailed(collection_name, "FileNotFoundError")
               /\ outcome' = [kind |-> "no_file", name |-> collection_name]
               /\ LocalsGone
               /\ UNCHANGED records_read
          ELSE IF "sample_documents" \notin DOMAIN collection_data
          THEN /\ CollectionFailed(collection_name, "ValueError")
               /\ outcome' = [kind |-> "no_key", name |-> collection_name]
               /\ LocalsGone
               /\ UNCHANGED records_read
          ELSE /\ total_documents' = Len(collection_data.sample_documents)
               /\ doc_iter' = collection_data.sample_documents
               /\ records_read' = records_read + total_documents'
               /\ imported_count' = 0
               /\ skipped_count' = 0
               /\ error_count' = 0
               /\ pc' = "documents"
               /\ outcome' = [kind |-> "loaded", name |-> collection_name]
               /\ UNCHANGED <<results, ci>>
    /\ UNCHANGED <<dry_run, overwrite, collection_names, target, target0,
                   written, report_saved>>

\* one iteration of "for doc_info in documents", lines 155-179
import_document ==
    /\ ImportFrame
    /\ tool = "import" /\ pc = "documents"
    /\ doc_iter # <<>>
    /\ LET collection_name == collection_names[ci]
           doc_info == Head(doc_iter)
       IN
       IF "id" \notin DOMAIN doc_info \/ "data" \notin DOMAIN doc_info
       THEN \* lines 156-157 are outside the try: the KeyError leaves
            \* import_collection and is caught at line 230
            /\ CollectionFailed(collection_name, "KeyError")
            /\ outcome' = [kind |-> "malformed", name |-> collection_name]
            /\ LocalsGone
            /\ UNCHANGED <<target, written>>
       ELSE
       LET doc_id == doc_info.id
           doc_data == deserialize_firestore_data(doc_info.data)
           exists == target[collection_name][doc_id] # Missing
           this == [name |-> collection_name, id |-> doc_id,
                    existed |-> exists]
       IN
       /\ doc_iter' = Tail(doc_iter)
       /\ UNCHANGED <<results, ci, pc, total_documents>>
       /\ IF TouchesTarget(dry_run)
          THEN \/ \* line 162 raises
                  /\ error_count' = CountError(error_count)
                  /\ outcome' = [kind |-> "get_failed"] @@ this
                  /\ UNCHANGED <<imported_count, skipped_count, target,
                                 written>>
               \/ /\ IF SkipsExisting(exists, overwrite)
                     THEN /\ skipped_count' = CountSkip(skipped_count)
                          /\ outcome' = [kind |-> "skipped"] @@ this
                          /\ UNCHANGED <<imported_count, error_count, target,
                                         written>>
                     ELSE /\ \/ \* line 170 raises
                                /\ error_count' = CountError(error_count)
                                /\ outcome' = [kind |-> "set_failed"] @@ this
                                /\ UNCHANGED <<imported_count, target,
                                               written>>
                             \/ /\ target' = [target EXCEPT
                                       ![collection_name][doc_id] = doc_data]
                                /\ written' = written + 1
                                /\ imported_count' = imported_count + 1
                                /\ outcome' = [kind |-> "imported"] @@ this
                                /\ UNCHANGED error_count
                          /\ UNCHANGED skipped_count
          ELSE /\ imported_count' = imported_count + 1
               /\ outcome' = [kind |-> "dry_run"] @@ this
               /\ UNCHANGED <<skipped_count, error_count, target,
                              written>>
    /\ UNCHANGED <<dry_run, overwrite, collection_names, target0,
                   report_saved, records_read>>

\* the end of import_collection, lines 181-196, and lines 223-228
import_collection_return ==
    /\ ImportFrame
    /\ tool = "import" /\ pc = "documents"
    /\ doc_iter = <<>>
    /\ LET collection_name == collection_names[ci]
           result == [collection_name |-> collection_name,
                      total_documents |-> total_documents,
                      imported |-> imported_count,
                      skipped |-> skipped_count,
                      errors |-> error_count]
       IN
       /\ results' = [results EXCEPT
              !.collections = Put(@, collection_name, result),
              !.summary.successful_imports = @ + 1,
              !.summary.total_documents = @ + result.total_documents,
              !.summary.total_imported = @ + result.imported,
              !.summary.total_skipped = @ + result.skipped,
              !.summary.total_errors = @ + result.errors]
       /\ outcome' = [kind |-> "returned", name |-> collection_name,
                      result |-> result]
    /\ ci' = ci + 1
    /\ pc' = "collections"
    /\ LocalsGone
    /\ UNCHANGED <<dry_run, overwrite, collection_names, target, target0,
                   written, report_saved, records_read>>

\* the end of import_selected_collections, lines 238-251; the report file
\* is written in live mode only (its write is taken to succeed)
save_import_report ==
    /\ ImportFrame
    /\ tool = "import" /\ pc = "collections"
    /\ ci > Len(collection_names)
    /\ report_saved' = ~dry_run
    /\ pc' = "done"
    /\ outcome' = [kind |-> "report"]
    /\ UNCHANGED <<dry_run, overwrite, collection_names, ci, total_documents,
                   doc_iter, imported_count, skipped_count, error_count,
                   results, target, target0, written, records_read>>

ImportNext ==
    \/ import_selected_collections
    \/ import_collection
    \/ import_document
    \/ import_collection_return
    \/ save_import_report

InitImport ==
    /\ ImportInit /\ ConstructIdle /\ ExportIdle /\ ConfirmIdle
    /\ SelectIdle /\ MainIdle /\ CodecIdle

SpecImport == InitImport /\ [][ImportNext]_vars

-----------------------------------------------------------------------------
(* Claims about the importer, checked under SpecImport.                    *)

DocumentOutcomes ==
    {"dry_run", "skipped", "imported", "get_failed", "set_failed"}
IsResult(e) == "imported" \in DOMAIN e
IsError(e) == "error" \in DOMAIN e
Requested == {collection_names[i] : i \in DOMAIN collection_names}

\* C1: in dry-run mode no step of import_collection reads or writes the
\* target (no get, no set, the target stays as it was), whatever the ids,
\* whether they exist in the target and whatever overwrite is; every record
\* gone through is counted as imported, so that every outcome returned has
\* imported = total_documents, skipped = 0 and errors = 0.
C1_DryRunWritesNothing ==
    (tool = "import" /\ dry_run) =>
        /\ written = 0
        /\ target = target0
        /\ outcome.kind \notin {"skipped", "imported", "get_failed",
                                "set_failed"}
        /\ pc = "documents" =>
              /\ imported_count = total_documents - Len(doc_iter)
              /\ skipped_count = 0
              /\ error_count = 0
        /\ outcome.kind = "returned" =>
              /\ outcome.result.imported = outcome.result.total_documents
              /\ outcome.result.skipped = 0
              /\ outcome.result.errors = 0
        /\ pc \in {"collections", "done"} =>
              \A n \in DOMAIN results.collections :
                 IsResult(results.collections[n]) =>
                    /\ results.collections[n].imported
                          = results.collections[n].total_documents
                    /\ results.collections[n].skipped = 0

\* a dry run has counted a document whose id exists in the target, with
\* overwrite off
C1_Witness ==
    /\ tool = "import" /\ dry_run /\ ~overwrite
    /\ outcome.kind = "dry_run" /\ outcome.existed
    /\ imported_count >= 1

\* C2: in live mode with overwrite off, a record whose id the existence check
\* finds in the target collection adds one to skipped and writes nothing;
\* every document the target held before the run is left as it was; and in
\* any mode a step changes the target only by writing one document that did
\* not exist or with overwrite on.
C2_SkipStep ==
    LET name == collection_names[ci]
        doc_info == Head(doc_iter)
    IN
    /\ (/\ pc = "documents" /\ doc_iter # <<>>
        /\ ~dry_run /\ ~overwrite
        /\ DOMAIN doc_info = {"id", "data"}
        /\ target[name][doc_info.id] # Missing
        /\ outcome'.kind # "get_failed")
       => /\ outcome'.kind = "skipped"
          /\ skipped_count' = skipped_count + 1
          /\ imported_count' = imported_count
          /\ error_count' = error_count
          /\ written' = written
          /\ target' = target
    /\ target' # target =>
          /\ pc = "documents" /\ doc_iter # <<>>
          /\ DOMAIN doc_info = {"id", "data"}
          /\ target[name][doc_info.id] = Missing \/ overwrite
          /\ \A c \in CollectionNames : \A i \in DocIds :
                (c # name \/ i # doc_info.id) => target'[c][i] = target[c][i]

\* C2: every step is a C2_SkipStep, and with overwrite off the documents the
\* target held before the run keep their data.
C2_ExistingLeftAlone ==
    /\ [][tool = "import" => C2_SkipStep]_vars
    /\ []((tool = "import" /\ ~overwrite) =>
            \A c \in CollectionNames : \A i \in DocIds :
               target0[c][i] # Missing => target[c][i] = target0[c][i])

\* a live run with overwrite off has skipped existing document "a" after it
\* wrote document "b"
C2_Witness ==
    /\ tool = "import" /\ ~dry_run /\ ~overwrite
    /\ outcome.kind = "skipped" /\ outcome.id = "a"
    /\ skipped_count = 1 /\ imported_count = 1
    /\ target[outcome.name]["a"] = OldData
    /\ target[outcome.name]["b"] = deserialize_firestore_data(NewData)

\* C3: a step in which the write of a document raises adds exactly one to
\* errors, changes no other count and not the target, and goes on to the
\* next record of the same collection; a collection is recorded as failed
\* only for a missing file, a missing sample_documents key or a malformed
\* record, never for a write that raised.
C3_FailedWriteStep ==
    /\ outcome'.kind = "set_failed" =>
          /\ pc = "documents" /\ pc' = "documents"
          /\ error_count' = error_count + 1
          /\ imported_count' = imported_count
          /\ skipped_count' = skipped_count
          /\ doc_iter' = Tail(doc_iter) /\ ci' = ci
          /\ total_documents' = total_documents
          /\ results' = results
          /\ target' = target /\ written' = written
    /\ (pc = "documents" /\ pc' = "collections"
        /\ results'.summary.failed_imports # results.summary.failed_imports)
       => outcome'.kind = "malformed"

\* C3: every step is a C3_FailedWriteStep.
C3_WriteFailureIsolated ==
    [][tool = "import" => C3_FailedWriteStep]_vars

\* import_collection returned an outcome with one error and one imported
\* document: the write of the first record raised, the second was written
C3_Witness ==
    /\ tool = "import" /\ outcome.kind = "returned"
    /\ outcome.result.total_documents = 2
    /\ outcome.result.errors = 1
    /\ outcome.result.imported = 1
    /\ written = 1

\* C4: a requested collection whose file is absent or lacks sample_documents
\* gets an {error} entry and adds exactly one to failed_imports, the other
\* totals and the entries of the other collections stay, and the loop goes on
\* with the next requested collection; at the end every requested collection
\* has an entry and successful_imports + failed_imports is the length of the
\* request.
C4_FailedCollectionStep ==
    outcome'.kind \in {"no_file", "no_key"} =>
       LET name == collection_names[ci] IN
       /\ pc = "collections" /\ pc' = "collections"
       /\ ci' = ci + 1
       /\ IsError(results'.collections[name])
       /\ results'.summary
             = [results.summary EXCEPT !.failed_imports = @ + 1]
       /\ \A n \in DOMAIN results.collections \ {name} :
             results'.collections[n] = results.collections[n]
       /\ target' = target

\* C4: every step is a C4_FailedCollectionStep, and at the end every
\* requested collection has been gone through and has its entry.
C4_MissingSamplesIsolated ==
    /\ [][tool = "import" => C4_FailedCollectionStep]_vars
    /\ []((tool = "import" /\ pc = "done") =>
            /\ ci = Len(collection_names) + 1
            /\ DOMAIN results.collections = Requested
            /\ results.summary.successful_imports
                  + results.summary.failed_imports = Len(collection_names))

\* the first of two requested collections had no sample_documents key, the
\* second was imported with a document written
C4_Witness ==
    /\ tool = "import" /\ pc = "done"
    /\ Len(collection_names) = 2
    /\ collection_names[1] # collection_names[2]
    /\ results.collections[collection_names[1]] = [error |-> "ValueError"]
    /\ IsResult(results.collections[collection_names[2]])
    /\ results.collections[collection_names[2]].imported = 1
    /\ results.summary.failed_imports = 1
    /\ results.summary.successful_imports = 1

\* C5: after a live import_selected_collections, summary.total_imported is
\* the number of documents written to the target during the run.
C5_TotalImportedIsWritten ==
    (tool = "import" /\ pc = "done" /\ ~dry_run) =>
        results.summary.total_imported = written

\* C11: a step of the document loop that handles a record takes it off the
\* iterator (it is never attempted again), makes at most one write, ends in
\* one of the document outcomes and adds one to exactly one of imported,
\* skipped and errors; total_documents does not change during the loop.
C11_RecordStep ==
    (pc = "documents" /\ doc_iter # <<>> /\ pc' = "documents") =>
       LET d_imported == imported_count' - imported_count
           d_skipped == skipped_count' - skipped_count
           d_errors == error_count' - error_count
       IN
       /\ doc_iter' = Tail(doc_iter)
       /\ total_documents' = total_documents
       /\ outcome'.kind \in DocumentOutcomes
       /\ <<d_imported, d_skipped, d_errors>>
             \in {<<1, 0, 0>>, <<0, 1, 0>>, <<0, 0, 1>>}
       /\ d_imported = 1 <=> outcome'.kind \in {"imported", "dry_run"}
       /\ d_skipped = 1 <=> outcome'.kind = "skipped"
       /\ d_errors = 1 <=> outcome'.kind \in {"get_failed", "set_failed"}
       /\ written' - written \in {0, 1}
       /\ written' # written <=> outcome'.kind = "imported"

\* C11: every step is a C11_RecordStep; inside the document loop the three
\* counts add up to the number of records visited so far; and every outcome
\* import_collection returns, and every result entry of the report, has
\* imported + skipped + errors = total_documents.  (A record that lacks id
\* or data ends the call with the KeyError of lines 156-157: no outcome is
\* returned then.)
C11_EachRecordCountedOnce ==
    /\ [][tool = "import" => C11_RecordStep]_vars
    /\ []((tool = "import" /\ pc = "documents") =>
            imported_count + skipped_count + error_count
               = total_documents - Len(doc_iter))
    /\ []((tool = "import" /\ outcome.kind = "returned") =>
            outcome.result.imported + outcome.result.skipped
               + outcome.result.errors = outcome.result.total_documents)
    /\ []((tool = "import" /\ pc \in {"collections", "done"}) =>
            \A n \in DOMAIN results.collections :
               IsResult(results.collections[n]) =>
                  results.collections[n].imported
                     + results.collections[n].skipped
                     + results.collections[n].errors
                        = results.collections[n].total_documents)

\* import_collection returned an outcome over three records: one was
\* skipped, one failed and one was written
C11_Witness ==
    /\ tool = "import" /\ outcome.kind = "returned"
    /\ outcome.result.total_documents = 3
    /\ outcome.result.imported = 1
    /\ outcome.result.skipped = 1
    /\ outcome.result.errors = 1
    /\ written = 1

-----------------------------------------------------------------------------
(* FirestoreImporter.__init__: _validate_service_account, _init_firebase.  *)

UPPERCASE == <<"D", "E", "J", "N", "O", "P", "R", "S", "V", "Y",
               "A", "I", "L", "Q", "T", "U">>
LOWERCASE == <<"d", "e", "j", "n", "o", "p", "r", "s", "v", "y",
               "a", "i", "l", "q", "t", "u">>

\* str.lower(), character by character
LowerChar(c) ==
    IF \E i \in DOMAIN UPPERCASE : UPPERCASE[i] = c
    THEN LOWERCASE[CHOOSE i \in DOMAIN UPPERCASE : UPPERCASE[i] = c]
    ELSE c
lower(s) == [i \in DOMAIN s |-> LowerChar(s[i])]

UpperChar(c) ==
    IF \E i \in DOMAIN LOWERCASE : LOWERCASE[i] = c
    THEN UPPERCASE[CHOOSE i \in DOMAIN LOWERCASE : LOWERCASE[i] = c]
    ELSE c

\* os.path.basename (posixpath): what follows the last "/"
basename(p) ==
    LET slashes == {i \in DOMAIN p : p[i] = "/"}
        last == IF slashes = {} THEN 0
                ELSE CHOOSE i \in slashes : \A j \in slashes : j <= i
    IN SubSeq(p, last + 1, Len(p))

PROD_JSON == <<"p", "r", "o", "d", ".", "j", "s", "o", "n">>

\* line 57, the safety check on the file name
IsProductionNameCaseSensitive(filename) == filename = PROD_JSON
IsProductionName(filename) == lower(filename) = PROD_JSON

\* every spelling of a word in upper and lower case letters
CaseVariants(w) ==
    {[i \in DOMAIN w |-> IF i \in U THEN UpperChar(w[i]) ELSE w[i]] :
        U \in SUBSET DOMAIN w}

\* the directories and the file names the credential paths are drawn from
Directories ==
    {<<>>, <<"/">>, <<"k", "/">>, <<".", ".", "/", "k", "/">>,
     <<"/">> \o PROD_JSON \o <<"/">>}
OtherNames ==
    {<<"d", "e", "v", ".", "j", "s", "o", "n">>,
     <<"p", "r", "o", "d", ".", "j", "s", "o">>,
     <<"x">> \o PROD_JSON,
     PROD_JSON \o <<".", "b">>,
     <<"p", "r", "o", "d">>}
CredentialPaths ==
    {d \o n : d \in Directories, n \in CaseVariants(PROD_JSON) \cup OtherNames}

DatabaseNames == {"(default)", "staging"}

ConstructInit ==
    /\ tool = "construct"
    /\ pc = "new"
    /\ service_account_path \in CredentialPaths
    /\ path_exists \in BOOLEAN
    /\ database_name \in DatabaseNames
    /\ app_initialized \in BOOLEAN
    /\ importer_db = None
    /\ firebase_calls = 0
    /\ raised = None

\* lines 40-44
importer_init ==
    /\ ConstructFrame
    /\ tool = "construct" /\ pc = "new"
    /\ importer_db' = None
    /\ pc' = "validate"
    /\ UNCHANGED <<service_account_path, path_exists, database_name,
                   app_initialized, firebase_calls, raised>>

\* _validate_service_account, lines 48-64
validate_service_account ==
    /\ ConstructFrame
    /\ tool = "construct" /\ pc = "validate"
    /\ IF ~path_exists
       THEN raised' = "FileNotFoundError" /\ pc' = "raised"
       ELSE IF IsProductionName(basename(service_account_path))
       THEN raised' = "ValueError" /\ pc' = "raised"
       ELSE raised' = raised /\ pc' = "init_firebase"
    /\ UNCHANGED <<service_account_path, path_exists, database_name,
                   importer_db, app_initialized, firebase_calls>>

\* _init_firebase, lines 66-89: an app left from before is deleted, the
\* certificate is read (which may raise), the app is initialised and the
\* client of the chosen database is kept in self.db
init_firebase ==
    /\ ConstructFrame
    /\ tool = "construct" /\ pc = "init_firebase"
    /\ LET before == IF app_initialized THEN 3 ELSE 1 IN
       \/ /\ raised' = "CertificateError"
          /\ pc' = "raised"
          /\ app_initialized' = FALSE
          /\ firebase_calls' = firebase_calls + before + 1
          /\ UNCHANGED importer_db
       \/ /\ app_initialized' = TRUE
          /\ importer_db' = [database_id |-> database_name]
          /\ firebase_calls' = firebase_calls + before + 3
          /\ pc' = "ready"
          /\ UNCHANGED raised
    /\ UNCHANGED <<service_account_path, path_exists, database_name>>

ConstructNext ==
    \/ importer_init
    \/ validate_service_account
    \/ init_firebase

InitConstruct ==
    /\ ConstructInit /\ ImportIdle /\ ExportIdle /\ ConfirmIdle
    /\ SelectIdle /\ MainIdle /\ CodecIdle

SpecConstruct == InitConstruct /\ [][ConstructNext]_vars

\* the file name of the path is prod.json in some letter case: the path is a
\* directory prefix (empty or ending in "/") followed by such a name
IsSpellingOf(s, w) ==
    /\ Len(s) = Len(w)
    /\ \A i \in DOMAIN w : s[i] = w[i] \/ s[i] = UpperChar(w[i])

HasProdFileName(p) ==
    \E k \in 0..Len(p) :
       /\ k = 0 \/ p[k] = "/"
       /\ IsSpellingOf(SubSeq(p, k + 1, Len(p)), PROD_JSON)

\* C6: for a credential path whose file name is prod.json in any letter case,
\* in any directory, the constructor never gets to _init_firebase: no
\* firebase call is made, self.db stays None, no app is initialised by it,
\* and once validation has run the constructor has raised.
C6_ProdRejectedBeforeConnect ==
    (tool = "construct" /\ HasProdFileName(service_account_path)) =>
        /\ pc \in {"new", "validate", "raised"}
        /\ importer_db = None
        /\ firebase_calls = 0
        /\ pc = "raised" => raised \in {"ValueError", "FileNotFoundError"}

\* the constructor has raised the safety error for an existing file named
\* PROD.JSON in a directory
C6_Witness ==
    /\ tool = "construct" /\ pc = "raised" /\ raised = "ValueError"
    /\ path_exists
    /\ service_account_path = <<"k", "/", "P", "R", "O", "D", ".", "J", "S", "O", "N">>
    /\ importer_db = None /\ firebase_calls = 0

-----------------------------------------------------------------------------
(* The exporter: get_collections, export_collection_structure and          *)
(* export_database_structure.                                              *)

MaxSrcDocs == 3       \* most documents a source collection holds
MaxSampleLimit == 2   \* largest sample_limit
COUNT_LIMIT == 100    \* the limit of the count query

\* the collections the source database may hold
SourceCollections == {<<"o">>, <<"o", "r">>, <<"u">>}

ALPHABET == <<"o", "r", "u">>
Code(c) == CHOOSE i \in DOMAIN ALPHABET : ALPHABET[i] = c

\* the order of str: by code point, a proper prefix first
RECURSIVE StrLess(_, _)
StrLess(s, t) ==
    IF t = <<>> THEN FALSE
    ELSE IF s = <<>> THEN TRUE
    ELSE IF s[1] = t[1] THEN StrLess(Tail(s), Tail(t))
    ELSE Code(s[1]) < Code(t[1])

\* sorted(): insertion of each element at its place
RECURSIVE Insert(_, _)
Insert(x, s) ==
    IF s = <<>> THEN <<x>>
    ELSE IF StrLess(s[1], x) THEN <<s[1]>> \o Insert(x, Tail(s))
    ELSE <<x>> \o s
RECURSIVE sorted(_)
sorted(s) == IF s = <<>> THEN <<>> ELSE Insert(s[1], sorted(Tail(s)))

\* the orders in which self.db.collections() may yield a set of collections
Listings(S) ==
    {f \in [1..Cardinality(S) -> S] : \A x \in S : \E i \in DOMAIN f : f[i] = x}

EmptyMap == Map(<<>>)
NativeData == Map([k \in {"k"} |-> List(<<Reference(<<"a">>), Timestamp(2)>>)])

\* the documents a collection may hold: document i has id i and either no
\* field at all or the fields of NativeData
SourceDocuments ==
    UNION {[1..n -> {EmptyMap, NativeData}] : n \in 0..MaxSrcDocs}
Snapshot(docs, i) == [id |-> i, exists |-> TRUE, data |-> docs[i]]

\* _document_to_dict, lines 52-62
document_to_dict(d) ==
    IF ~d.exists THEN EmptyMap
    ELSE IF d.data.v = <<>> THEN EmptyMap
    ELSE serialize_firestore_data(d.data)

\* collection_ref.limit(n).stream(): the positions of the documents fetched
Unlimited(docs, n) == DOMAIN docs
limit(docs, n) == {i \in DOMAIN docs : i <= n}

\* lines 92-100: the documents fetched that are not empty, in order
RECURSIVE SampleDocs(_, _, _)
SampleDocs(docs, fetched, i) ==
    IF i > Len(docs) THEN <<>>
    ELSE LET doc_data == document_to_dict(Snapshot(docs, i)) IN
         (IF i \in fetched /\ doc_data # EmptyMap
          THEN <<[id |-> i, data |-> doc_data]>>
          ELSE <<>>) \o SampleDocs(docs, fetched, i + 1)

\* lines 103-111: the estimated count
EstimatedCount(docs, count_fails) ==
    IF count_fails THEN [kind |-> "unknown", n |-> 0]
    ELSE IF Cardinality(limit(docs, COUNT_LIMIT)) = COUNT_LIMIT
    THEN [kind |-> "100+", n |-> COUNT_LIMIT]
    ELSE [kind |-> "count", n |-> Cardinality(limit(docs, COUNT_LIMIT))]

\* export_collection_structure, lines 84-119
export_collection_structure(collection_name, limit_, docs, count_fails) ==
    LET sample_docs == SampleDocs(docs, limit(docs, limit_), 1) IN
    [collection_name |-> collection_name,
     estimated_document_count |-> EstimatedCount(docs, count_fails),
     sample_documents |-> sample_docs,
     sample_count |-> Len(sample_docs)]

\* line 141: after the except branch the loop takes the next collection
LeaveLoop(i, n) == n + 1
NextCollection(i, n) == i + 1

ExportInit ==
    /\ tool = "export"
    /\ pc = "start"
    /\ sample_limit \in 1..MaxSampleLimit
    /\ collections = <<>>
    /\ ei = 0
    /\ database_structure = None
    /\ source = <<>>
    /\ attempted = <<>>
    /\ structure_file = None

\* export_database_structure, lines 123-138, with get_collections, 77-82
export_database_structure ==
    /\ ExportFrame
    /\ tool = "export" /\ pc = "start"
    /\ \E held \in SUBSET SourceCollections : \E listing \in Listings(held) :
          collections' = sorted(listing)
    /\ database_structure' = [project_id |-> "project",
                              total_collections |-> Len(collections'),
                              collections |-> <<>>]
    /\ ei' = 1
    /\ pc' = "collections"
    /\ UNCHANGED <<sample_limit, source, attempted, structure_file>>

\* one iteration of "for collection_name in collections", lines 141-158
export_collection ==
    /\ ExportFrame
    /\ tool = "export" /\ pc = "collections"
    /\ ei <= Len(collections)
    /\ LET collection_name == collections[ei] IN
       \E docs \in SourceDocuments :
          /\ source' = docs
          /\ \/ \* the sample query raises: line 154
                /\ database_structure' = [database_structure EXCEPT
                       !.collections =
                           Put(@, collection_name, [error |-> "stream"])]
                /\ attempted' = Append(attempted,
                       [name |-> collection_name, failed |-> TRUE])
                /\ ei' = NextCollection(ei, Len(collections))
             \/ \E count_fails \in BOOLEAN :
                LET collection_data ==
                       export_collection_structure(collection_name,
                           sample_limit, docs, count_fails)
                IN
                \/ \* the collection file is written: lines 144-151
                   /\ database_structure' = [database_structure EXCEPT
                          !.collections = Put(@, collection_name, collection_data)]
                   /\ attempted' = Append(attempted,
                          [name |-> collection_name, failed |-> FALSE])
                   /\ ei' = ei + 1
                \/ \* writing the collection file raises: the entry set at
                   \* line 144 is replaced at line 155
                   /\ database_structure' = [database_structure EXCEPT
                          !.collections =
                              Put(@, collection_name, [error |-> "write"])]
                   /\ attempted' = Append(attempted,
                          [name |-> collection_name, failed |-> TRUE])
                   /\ ei' = NextCollection(ei, Len(collections))
    /\ UNCHANGED <<sample_limit, collections, pc, structure_file>>

\* lines 160-166 (the write of the aggregate file is taken to succeed)
save_complete_structure ==
    /\ ExportFrame
    /\ tool = "export" /\ pc = "collections"
    /\ ei > Len(collections)
    /\ structure_file' = database_structure
    /\ pc' = "done"
    /\ UNCHANGED <<sample_limit, collections, ei, database_structure, source,
                   attempted>>

ExportNext ==
    \/ export_database_structure
    \/ export_collection
    \/ save_complete_structure

InitExport ==
    /\ ExportInit /\ ImportIdle /\ ConstructIdle /\ ConfirmIdle
    /\ SelectIdle /\ MainIdle /\ CodecIdle

SpecExport == InitExport /\ [][ExportNext]_vars

-----------------------------------------------------------------------------
(* Claims about the exporter, checked under SpecExport.                    *)

Listed == {collections[i] : i \in DOMAIN collections}

\* C7: every collection returned by get_collections is attempted, once and
\* in order, whatever happened to the ones before it; a failed one has an
\* {error} placeholder and a successful one its export record; the structure
\* written at the end has exactly one entry per listed collection.
C7_ExportFailureIsolated ==
    (tool = "export" /\ pc \in {"collections", "done"}) =>
        /\ ei <= Len(collections) + 1
        /\ Len(attempted) = ei - 1
        /\ DOMAIN database_structure.collections
              = {collections[i] : i \in 1..(ei - 1)}
        /\ \A i \in 1..(ei - 1) :
              LET entry == database_structure.collections[collections[i]] IN
              /\ attempted[i].name = collections[i]
              /\ attempted[i].failed => DOMAIN entry = {"error"}
              /\ ~attempted[i].failed =>
                    /\ "error" \notin DOMAIN entry
                    /\ entry.collection_name = collections[i]
        /\ pc = "done" =>
              /\ ei = Len(collections) + 1
              /\ structure_file = database_structure
              /\ DOMAIN structure_file.collections = Listed
              /\ Cardinality(DOMAIN structure_file.collections)
                    = Len(collections)
              /\ structure_file.total_collections = Len(collections)

\* the structure has been written for three collections of which the first
\* and the last failed and the middle one was exported
C7_Witness ==
    /\ tool = "export" /\ pc = "done"
    /\ Len(collections) = 3
    /\ attempted[1].failed /\ ~attempted[2].failed /\ attempted[3].failed
    /\ structure_file.collections[collections[2]].sample_count >= 1

LastExported == database_structure.collections[attempted[Len(attempted)].name]
Exported ==
    /\ tool = "export" /\ attempted # <<>>
    /\ ~attempted[Len(attempted)].failed
NonEmptyFetched ==
    {i \in DOMAIN source : i <= sample_limit /\ source[i] # EmptyMap}

\* C8 as stated: on a collection holding at least sample_limit documents the
\* record has sample_count = sample_limit, and sample_count is the length of
\* sample_documents.
C8_SampleCountIsLimit ==
    Exported =>
        /\ Len(source) >= sample_limit =>
              LastExported.sample_count = sample_limit
        /\ LastExported.sample_count = Len(LastExported.sample_documents)

\* C8 amended: sample_count is the number of non-empty documents among the
\* first sample_limit documents fetched, hence at most sample_limit, and it
\* is sample_limit when the collection holds at least sample_limit documents
\* and none of those fetched is empty; sample_count is the length of
\* sample_documents, which holds exactly those documents in order.
C8_SampleCountIsNonEmptyFetched ==
    Exported =>
        /\ LastExported.sample_count = Cardinality(NonEmptyFetched)
        /\ LastExported.sample_count <= sample_limit
        /\ (/\ Len(source) >= sample_limit
            /\ \A i \in 1..sample_limit : source[i] # EmptyMap)
           => LastExported.sample_count = sample_limit
        /\ LastExported.sample_count = Len(LastExported.sample_documents)
        /\ \A j \in DOMAIN LastExported.sample_documents :
              /\ LastExported.sample_documents[j].id \in NonEmptyFetched
              /\ j > 1 => LastExported.sample_documents[j - 1].id
                             < LastExported.sample_documents[j].id

\* a collection of three non-empty documents has been exported with
\* sample_limit 2: two samples
C8_Witness ==
    /\ Exported
    /\ sample_limit = 2 /\ Len(source) = 3
    /\ \A i \in DOMAIN source : source[i] # EmptyMap
    /\ LastExported.sample_count = 2

-----------------------------------------------------------------------------
(* confirm_import.                                                         *)

MaxPrompts == 2       \* most answers read by one prompt loop

\* str.strip(): blanks removed at both ends
RECURSIVE lstrip(_)
lstrip(s) == IF s # <<>> /\ s[1] = " " THEN lstrip(Tail(s)) ELSE s
RECURSIVE rstrip(_)
rstrip(s) ==
    IF s # <<>> /\ s[Len(s)] = " " THEN rstrip(SubSeq(s, 1, Len(s) - 1))
    ELSE s
strip(s) == rstrip(lstrip(s))

YES == <<"y", "e", "s">>
NO == <<"n", "o">>

\* what the user may type at the prompt
ConsoleInputs ==
    {YES, <<"Y">>, <<" ", "Y", "e", "s", " ">>, NO, <<"N", " ">>,
     <<"y", "e", "p">>, <<>>}

\* line 311: a dry run is confirmed without asking
NeverAutoConfirms(dry) == FALSE
AutoConfirms(dry) == dry

ConfirmInit ==
    /\ tool = "confirm"
    /\ pc = "start"
    /\ dry_run \in BOOLEAN
    /\ selected_collections \in SeqsUpTo(CollectionNames, MaxSelected)
    /\ confirmations = <<>>
    /\ confirm_result = None

\* confirm_import up to its first prompt, lines 297-316
confirm_import ==
    /\ ConfirmFrame
    /\ tool = "confirm" /\ pc = "start"
    /\ IF selected_collections = <<>>
       THEN confirm_result' = FALSE /\ pc' = "returned"
       ELSE IF AutoConfirms(dry_run)
       THEN confirm_result' = TRUE /\ pc' = "returned"
       ELSE confirm_result' = confirm_result /\ pc' = "prompt"
    /\ UNCHANGED <<selected_collections, confirmations>>

\* one turn of the prompt loop, lines 318-325
confirm_prompt ==
    /\ ConfirmFrame
    /\ tool = "confirm" /\ pc = "prompt"
    /\ Len(confirmations) < MaxPrompts
    /\ \E typed \in ConsoleInputs :
          LET confirmation == lower(strip(typed)) IN
          /\ confirmations' = Append(confirmations, typed)
          /\ IF confirmation \in {YES, <<"y">>}
             THEN confirm_result' = TRUE /\ pc' = "returned"
             ELSE IF confirmation \in {NO, <<"n">>}
             THEN confirm_result' = FALSE /\ pc' = "returned"
             ELSE confirm_result' = confirm_result /\ pc' = "prompt"
    /\ UNCHANGED selected_collections

ConfirmNext ==
    \/ confirm_import
    \/ confirm_prompt

InitConfirm ==
    /\ ConfirmInit /\ ImportIdleButDryRun /\ ConstructIdle /\ ExportIdle
    /\ SelectIdle /\ MainIdle /\ CodecIdle

SpecConfirm == InitConfirm /\ [][ConfirmNext]_vars

\* C9 as stated: with dry_run set, confirm_import returns true for every
\* selection passed to it, without reading any input.
C9_DryRunAlwaysConfirms ==
    (tool = "confirm" /\ dry_run /\ pc = "returned") =>
        /\ confirm_result = TRUE
        /\ confirmations = <<>>

\* C9 amended: with dry_run set, confirm_import reads no input and returns
\* true for every non-empty selection; for an empty selection it returns
\* false, in dry-run and in live mode, again without reading any input.
C9_DryRunConfirmsNonEmpty ==
    /\ (tool = "confirm" /\ dry_run) =>
          /\ confirmations = <<>>
          /\ pc # "prompt"
          /\ pc = "returned" =>
                confirm_result = (selected_collections # <<>>)
    /\ (tool = "confirm" /\ selected_collections = <<>>) =>
          /\ confirmations = <<>>
          /\ pc = "returned" => confirm_result = FALSE

\* a dry run over two selected collections has been confirmed unasked
C9_Witness ==
    /\ tool = "confirm" /\ dry_run /\ pc = "returned"
    /\ Len(selected_collections) = 2
    /\ confirm_result = TRUE
    /\ confirmations = <<>>

-----------------------------------------------------------------------------
(* select_collections: the menu of the collections found in the import     *)
(* directory and its prompt loop.                                          *)

QUIT == <<"q", "u", "i", "t">>
ALL == <<"a", "l", "l">>

\* str.split(","): the pieces between the commas, empty pieces included
RECURSIVE split(_)
split(s) ==
    LET commas == {i \in DOMAIN s : s[i] = ","} IN
    IF commas = {} THEN <<s>>
    ELSE LET first == CHOOSE i \in commas : \A j \in commas : i <= j IN
         <<SubSeq(s, 1, first - 1)>> \o split(SubSeq(s, first + 1, Len(s)))

DIGITS == <<"0", "1", "2", "3", "4", "5", "6", "7", "8", "9">>
IsDigit(c) == \E i \in DOMAIN DIGITS : DIGITS[i] = c
DigitValue(c) == (CHOOSE i \in DOMAIN DIGITS : DIGITS[i] = c) - 1

RECURSIVE DecimalValue(_)
DecimalValue(ds) ==
    IF ds = <<>> THEN 0
    ELSE 10 * DecimalValue(SubSeq(ds, 1, Len(ds) - 1))
            + DigitValue(ds[Len(ds)])

\* int(x): blanks around the number are allowed, then an optional sign and
\* at least one decimal digit; for anything else int raises ValueError
Signed(t) == t # <<>> /\ t[1] \in {"+", "-"}
Unsigned(t) == IF Signed(t) THEN Tail(t) ELSE t
IntRaises(x) ==
    LET ds == Unsigned(strip(x)) IN
    ds = <<>> \/ \E i \in DOMAIN ds : ~IsDigit(ds[i])
int(x) ==
    LET t == strip(x) IN
    IF Signed(t) /\ t[1] = "-" THEN 0 - DecimalValue(Unsigned(t))
    ELSE DecimalValue(Unsigned(t))

\* line 278: the list comprehension raises ValueError when a piece is not a
\* number, and is the list of the numbers typed otherwise
ParseRaises(user_input) ==
    \E i \in DOMAIN split(user_input) : IntRaises(split(user_input)[i])
ParseIndices(user_input) ==
    [i \in DOMAIN split(user_input) |-> int(split(user_input)[i])]

\* line 282
InRange(index, n) == 1 <= index /\ index <= n

\* lines 281-286: the names appended to selected until the loop ends or
\* breaks at the first index that is out of range
RECURSIVE AppendValid(_, _, _)
AppendValid(sel, indices, available) ==
    IF indices = <<>> THEN sel
    ELSE IF InRange(Head(indices), Len(available))
    THEN AppendValid(Append(sel, available[Head(indices)]), Tail(indices),
                     available)
    ELSE sel

\* line 279: every turn of the loop starts from an empty list
KeepsSelected(sel) == IF sel = None THEN <<>> ELSE sel
FreshSelected(sel) == <<>>

\* the lists get_available_collections returns: sorted, one name per file
AvailableListings ==
    {<<>>, <<"orders">>, <<"users">>, <<"orders", "users">>}

\* what the user may type at the selection prompt
SelectionInputs ==
    {QUIT, <<" ", "Q", "u", "i", "t">>, ALL, <<"A", "L", "L", " ">>,
     <<"1">>, <<"2">>, <<"3">>, <<"0">>, <<"-", "1">>, <<"+", "1">>,
     <<"0", "2">>, <<"1", "0">>,
     <<"1", ",", "2">>, <<"2", ",", "1">>, <<"1", ",", "1">>,
     <<" ", "1", " ", ",", " ", "2", " ">>,
     <<"1", ",", "9">>, <<"9", ",", "1">>, <<"1", ",", "2", ",", "4">>,
     <<"1", ",", "x">>, <<"1", ",", "9", ",", "x">>,
     <<"1", ",", ",", "2">>, <<"1", ",">>, <<"1", " ", "2">>,
     <<"a", "l", "l", ",", "1">>, <<"x">>, <<>>, <<" ">>}

SelectInit ==
    /\ tool = "select"
    /\ pc = "start"
    /\ available_collections \in AvailableListings
    /\ selections = <<>>
    /\ selected = None
    /\ select_result = None

\* select_collections up to its first prompt, lines 256-265
select_collections ==
    /\ SelectFrame
    /\ tool = "select" /\ pc = "start"
    /\ IF available_collections = <<>>
       THEN select_result' = <<>> /\ pc' = "returned"
       ELSE select_result' = select_result /\ pc' = "prompt"
    /\ UNCHANGED <<available_collections, selections, selected>>

\* one turn of the prompt loop, lines 267-292
select_prompt ==
    /\ SelectFrame
    /\ tool = "select" /\ pc = "prompt"
    /\ Len(selections) < MaxPrompts
    /\ \E typed \in SelectionInputs :
          LET user_input == lower(strip(typed))
              indices == ParseIndices(user_input)
          IN
          /\ selections' = Append(selections, typed)
          /\ IF user_input = QUIT
             THEN /\ select_result' = <<>> /\ pc' = "returned"
                  /\ UNCHANGED selected
             ELSE IF user_input = ALL
             THEN /\ select_result' = available_collections
                  /\ pc' = "returned"
                  /\ UNCHANGED selected
             ELSE IF ParseRaises(user_input)
             THEN \* lines 291-292
                  UNCHANGED <<selected, select_result, pc>>
             ELSE /\ selected' = AppendValid(FreshSelected(selected), indices,
                                             available_collections)
                  /\ IF \A i \in DOMAIN indices :
                           InRange(indices[i], Len(available_collections))
                     THEN select_result' = selected' /\ pc' = "returned"
                     ELSE UNCHANGED <<select_result, pc>>
    /\ UNCHANGED available_collections

SelectNext ==
    \/ select_collections
    \/ select_prompt

InitSelect ==
    /\ SelectInit /\ ImportIdle /\ ConstructIdle /\ ExportIdle /\ ConfirmIdle
    /\ MainIdle /\ CodecIdle

SpecSelect == InitSelect /\ [][SelectNext]_vars

-----------------------------------------------------------------------------
(* Claims about select_collections, checked under SpecSelect.              *)

\* the names a line selects from the available list, or Rejected: quit
\* selects nothing, all selects every name, a list of numbers that are all
\* within 1..len(available) selects the names at these positions, in the
\* order typed
Rejected == [rejected |-> TRUE]
Names(s) == [names |-> s]
Selects(typed, available) ==
    LET user_input == lower(strip(typed))
        indices == ParseIndices(user_input)
    IN
    IF user_input = QUIT THEN Names(<<>>)
    ELSE IF user_input = ALL THEN Names(available)
    ELSE IF ParseRaises(user_input) THEN Rejected
    ELSE IF \E i \in DOMAIN indices :
               indices[i] < 1 \/ indices[i] > Len(available)
    THEN Rejected
    ELSE Names([i \in DOMAIN indices |-> available[indices[i]]])

LastSelection == selections[Len(selections)]

\* C12 as stated: select_collections returns only on a line that is quit,
\* all or a list of numbers within 1..len(available), and what it returns
\* is what that line selects.
C12_ReturnsOnlyOnAcceptedLine ==
    (tool = "select" /\ pc = "returned") =>
        /\ selections # <<>>
        /\ Selects(LastSelection, available_collections) # Rejected
        /\ Names(select_result)
              = Selects(LastSelection, available_collections)

\* C12 amended: for an empty available list select_collections returns the
\* empty selection at once, without reading a line.  Otherwise it returns
\* only on a line that is quit, all or a list of numbers within
\* 1..len(available); every line before that one was rejected and left the
\* function at its prompt; what is returned is what the last line selects,
\* so nothing of a rejected line is in it.
C12_ReturnsWhatLastLineSelects ==
    tool = "select" =>
        /\ available_collections = <<>> =>
              /\ selections = <<>>
              /\ pc # "prompt"
              /\ pc = "returned" => select_result = <<>>
        /\ pc = "prompt" =>
              /\ select_result = None
              /\ \A i \in DOMAIN selections :
                    Selects(selections[i], available_collections) = Rejected
        /\ (pc = "returned" /\ available_collections # <<>>) =>
              /\ selections # <<>>
              /\ \A i \in 1..(Len(selections) - 1) :
                    Selects(selections[i], available_collections) = Rejected
              /\ Selects(LastSelection, available_collections) # Rejected
              /\ Names(select_result)
                    = Selects(LastSelection, available_collections)
              /\ \A i \in DOMAIN select_result :
                    \E j \in DOMAIN available_collections :
                       select_result[i] = available_collections[j]

\* the line "1,9" was rejected after its first index had been taken, then
\* "2,1" returned the two available collections in the order typed
C12_Witness ==
    /\ tool = "select" /\ pc = "returned"
    /\ selections = << <<"1", ",", "9">>, <<"2", ",", "1">> >>
    /\ available_collections = <<"orders", "users">>
    /\ select_result = <<"users", "orders">>

-----------------------------------------------------------------------------
(* main of import.py: the importer is built, the collections found in the  *)
(* import directory are listed, the user selects and confirms, and the     *)
(* selected collections are imported.  The functions main calls are the    *)
(* actions above; the actions below are the lines of main between the      *)
(* calls.  In a run of main, tool is the function main is in.              *)

\* the values FIREBASE_SERVICE_ACCOUNT_PATH may have: not set, the path of
\* a development key, the path of a production key
DEV_KEY == <<"k", "/", "d", "e", "v", ".", "j", "s", "o", "n">>
PROD_KEY == <<"k", "/", "P", "r", "o", "d", ".", "J", "S", "O", "N">>
EnvServiceAccountPaths == {<<>>, DEV_KEY, PROD_KEY}

\* line 372: the import goes on only when confirm_import returned True
ProceedsUnconfirmed(confirmed) == TRUE
Proceeds(confirmed) == confirmed

\* sys.exit(status)
Exit(status) ==
    /\ tool' = "main" /\ pc' = "exited" /\ exit_status' = status

MainInit ==
    /\ tool = "main"
    /\ pc = "start"
    /\ dry_run \in BOOLEAN
    /\ target = InitialTarget
    /\ target0 = target
    /\ overwrite = FALSE /\ collection_names = <<>>
    /\ ci = 0 /\ total_documents = 0 /\ doc_iter = <<>>
    /\ imported_count = 0 /\ skipped_count = 0 /\ error_count = 0
    /\ results = None
    /\ written = 0
    /\ outcome = NoOutcome
    /\ report_saved = FALSE
    /\ records_read = 0
    \* nothing is selected and confirm_import has not returned True
    /\ selected_collections = <<>> /\ confirmations = <<>>
    /\ confirm_result = FALSE

\* lines 334-354: the environment is read; without a project id or a
\* credential path the process exits with 1, otherwise the importer is built
main_start ==
    /\ tool = "main" /\ pc = "start"
    /\ \E project_id_set \in BOOLEAN, path \in EnvServiceAccountPaths :
          IF ~project_id_set \/ path = <<>>
          THEN /\ Exit(1)
               /\ UNCHANGED initVars
          ELSE /\ tool' = "construct" /\ pc' = "new"
               /\ service_account_path' = path
               /\ path_exists' \in BOOLEAN
               /\ database_name' \in DatabaseNames
               /\ UNCHANGED <<importer_db, app_initialized, firebase_calls,
                              raised, exit_status>>
    /\ UNCHANGED <<importVars, exportVars, confirmVars, selectVars,
                   codecVars>>

\* lines 354-365: an exception of the constructor or of
\* get_available_collections ends the process with 1 (lines 398-400), and so
\* does an import directory without collection files; otherwise
\* select_collections is called
main_constructed ==
    /\ tool = "construct" /\ pc \in {"ready", "raised"}
    /\ IF pc = "raised"
       THEN /\ Exit(1)
            /\ UNCHANGED selectVars
       ELSE \/ \* line 109 raises
               /\ Exit(1)
               /\ UNCHANGED selectVars
            \/ \E listing \in AvailableListings :
                  IF listing = <<>>
                  THEN /\ Exit(1)
                       /\ UNCHANGED selectVars
                  ELSE /\ tool' = "select" /\ pc' = "start"
                       /\ available_collections' = listing
                       /\ UNCHANGED <<selections, selected, select_result,
                                      exit_status>>
    /\ UNCHANGED <<importVars, initVars, exportVars, confirmVars, codecVars>>

\* lines 365-372: an empty selection ends the process with 0, otherwise
\* confirm_import is called; the locals of select_collections are gone
main_selected ==
    /\ tool = "select" /\ pc = "returned"
    /\ selected_collections' = select_result
    /\ selections' = <<>> /\ selected' = None
    /\ IF select_result = <<>>
       THEN Exit(0)
       ELSE /\ tool' = "confirm" /\ pc' = "start"
            /\ UNCHANGED exit_status
    /\ UNCHANGED <<importVars, initVars, exportVars, confirmations,
                   confirm_result, available_collections, select_result,
                   codecVars>>

\* lines 372-387: without the confirmation the process exits with 0;
\* otherwise a live run asks whether existing documents are overwritten, and
\* import_selected_collections is called; the locals of confirm_import are
\* gone
main_confirmed ==
    /\ tool = "confirm" /\ pc = "returned"
    /\ confirmations' = <<>>
    /\ IF ~Proceeds(confirm_result)
       THEN /\ Exit(0)
            /\ UNCHANGED <<overwrite, collection_names>>
       ELSE \/ \* line 379: the console is closed, EOFError, lines 398-400
               /\ ~dry_run
               /\ Exit(1)
               /\ UNCHANGED <<overwrite, collection_names>>
            \/ /\ IF ~dry_run
                  THEN \E typed \in ConsoleInputs :
                          overwrite' = (lower(strip(typed)) \in {YES, <<"y">>})
                  ELSE overwrite' = FALSE
               /\ collection_names' = selected_collections
               /\ tool' = "import" /\ pc' = "start"
               /\ UNCHANGED exit_status
    /\ UNCHANGED <<dry_run, ci, total_documents, doc_iter, imported_count,
                   skipped_count, error_count, results, target, target0,
                   written, outcome, report_saved, records_read,
                   initVars, exportVars, selected_collections, confirm_result,
                   selectVars, codecVars>>

\* lines 389-396: the summary is printed and main returns
main_imported ==
    /\ tool = "import" /\ pc = "done"
    /\ Exit(0)
    /\ UNCHANGED <<importVars, initVars, exportVars, confirmVars, selectVars,
                   codecVars>>

\* input() of a prompt raises EOFError when the console is closed; the
\* exception leaves the function and is caught at lines 398-400
main_console_closed ==
    /\ tool \in {"select", "confirm"} /\ pc = "prompt"
    /\ Exit(1)
    /\ UNCHANGED <<importVars, initVars, exportVars, confirmVars, selectVars,
                   codecVars>>

MainNext ==
    \/ main_start
    \/ importer_init
    \/ validate_service_account
    \/ init_firebase
    \/ main_constructed
    \/ select_collections
    \/ select_prompt
    \/ main_selected
    \/ confirm_import
    \/ confirm_prompt
    \/ main_confirmed
    \/ import_selected_collections
    \/ import_collection
    \/ import_document
    \/ import_collection_return
    \/ save_import_report
    \/ main_imported
    \/ main_console_closed

InitMain ==
    /\ MainInit /\ ConstructIdle /\ ExportIdle /\ SelectIdle /\ MainIdle
    /\ CodecIdle

SpecMain == InitMain /\ [][MainNext]_vars

-----------------------------------------------------------------------------
(* Claims about main, checked under SpecMain.                              *)

IsYes(typed) == lower(strip(typed)) \in {YES, <<"y">>}
IsNo(typed) == lower(strip(typed)) \in {NO, <<"n">>}
IsQuit(typed) == lower(strip(typed)) = QUIT

\* nothing has been written: no document, no import report
NothingWritten ==
    written = 0 /\ target = target0 /\ ~report_saved

ExitedClean ==
    tool = "main" /\ pc = "exited" /\ exit_status = 0 /\ NothingWritten

\* C13, the steps of a live run: confirm_import returns True only on an
\* answer that is yes or y, given for a non-empty selection; the import is
\* entered only from a confirmation that returned True, with the selection
\* made; only steps of the import write a document or the report; a quit
\* line makes select_collections return the empty selection and a no or n
\* answer makes confirm_import return False; and from an empty selection or
\* a False confirmation the next step exits with status 0, nothing written.
C13_LiveStep ==
    /\ (confirm_result' = TRUE /\ confirm_result # TRUE) =>
          /\ tool = "confirm" /\ pc = "prompt"
          /\ selected_collections # <<>>
          /\ confirmations' # <<>>
          /\ IsYes(confirmations'[Len(confirmations')])
    /\ (tool' = "import" /\ tool # "import") =>
          /\ tool = "confirm" /\ pc = "returned"
          /\ confirm_result = TRUE
          /\ selected_collections # <<>>
          /\ collection_names' = selected_collections
          /\ IsYes(confirmations[Len(confirmations)])
    /\ (written' # written \/ target' # target
           \/ report_saved' # report_saved) =>
          tool = "import"
    /\ (tool = "select" /\ pc = "prompt" /\ selections' # selections
           /\ IsQuit(selections'[Len(selections')])) =>
          pc' = "returned" /\ select_result' = <<>>
    /\ (tool = "confirm" /\ pc = "prompt"
           /\ confirmations' # confirmations
           /\ IsNo(confirmations'[Len(confirmations')])) =>
          pc' = "returned" /\ confirm_result' = FALSE
    /\ (tool = "select" /\ pc = "returned" /\ select_result = <<>>) =>
          ExitedClean'
    /\ (tool = "confirm" /\ pc = "returned" /\ confirm_result = FALSE) =>
          ExitedClean'

\* C13: in a live run of main every step is a C13_LiveStep, and whenever a
\* document or the import report has been written, or the import is under
\* way, the user has made a non-empty selection and confirm_import has
\* returned True for it; a process that exited without the confirmation
\* has written nothing.
C13_NoWriteBeforeConfirmation ==
    /\ [][~dry_run => C13_LiveStep]_vars
    /\ [](~dry_run =>
            /\ (~NothingWritten \/ tool = "import") =>
                  /\ selected_collections # <<>>
                  /\ collection_names = selected_collections
                  /\ confirm_result = TRUE
            /\ (tool \in {"construct", "select", "confirm"}
                   \/ (tool = "main" /\ pc = "start")) => NothingWritten
            /\ (tool = "main" /\ pc = "exited" /\ confirm_result # TRUE) =>
                  NothingWritten)

\* a live run whose selection was confirmed has written a document and the
\* import report, and exited with status 0
C13_Witness ==
    /\ tool = "main" /\ pc = "exited" /\ exit_status = 0
    /\ ~dry_run /\ confirm_result = TRUE
    /\ Len(selected_collections) = 2
    /\ written >= 1 /\ report_saved

-----------------------------------------------------------------------------
(* The value codec on its own: a document is serialized by the exporter    *)
(* and the result deserialized by the importer.                            *)

MaxNodes == 4         \* most scalars and containers in one document value

Keys == {"id", "k"}
REF_A == REF_PREFIX \o <<"a">>
JsonScalars == {Null, Bool(TRUE), Num(1), Str(<<"a">>), Str(REF_A)}
NativeScalars == JsonScalars \cup {Timestamp(2), Reference(<<"a">>)}

\* the values made of exactly n scalars and containers
RECURSIVE ValuesOfSize(_), SeqsOfSize(_)
SeqsOfSize(m) ==
    IF m = 0 THEN {<<>>}
    ELSE UNION {{<<x>> \o s : x \in ValuesOfSize(j), s \in SeqsOfSize(m - j)} :
                   j \in 1..m}
ValuesOfSize(n) ==
    IF n = 1 THEN NativeScalars \cup {List(<<>>), EmptyMap}
    ELSE {List(s) : s \in SeqsOfSize(n - 1)}
         \cup {Map([key \in {k1} |-> x]) : k1 \in Keys, x \in ValuesOfSize(n - 1)}
         \cup UNION {{Map([key \in Keys |-> IF key = "id" THEN x ELSE y]) :
                         x \in ValuesOfSize(j), y \in ValuesOfSize(n - 1 - j)} :
                        j \in 1..(n - 2)}

DocumentValues(most) == UNION {ValuesOfSize(n) : n \in 1..most}

CodecInit ==
    /\ tool = "codec"
    /\ pc = "start"
    /\ doc \in DocumentValues(MaxNodes)
    /\ serialized = None
    /\ deserialized = None

\* the exporter serializes the document, export.py line 62
serialize ==
    /\ CodecFrame
    /\ tool = "codec" /\ pc = "start"
    /\ serialized' = serialize_firestore_data(doc)
    /\ pc' = "serialized"
    /\ UNCHANGED <<doc, deserialized>>

\* the importer deserializes what the exporter wrote, import.py line 157
deserialize ==
    /\ CodecFrame
    /\ tool = "codec" /\ pc = "serialized"
    /\ deserialized' = deserialize_firestore_data(serialized)
    /\ pc' = "deserialized"
    /\ UNCHANGED <<doc, serialized>>

CodecNext ==
    \/ serialize
    \/ deserialize

InitCodec ==
    /\ CodecInit /\ ImportIdle /\ ConstructIdle /\ ExportIdle /\ ConfirmIdle
    /\ SelectIdle /\ MainIdle

SpecCodec == InitCodec /\ [][CodecNext]_vars

\* no timestamp and no reference anywhere in the value
RECURSIVE JsonSafe(_)
JsonSafe(x) ==
    IF x.t \in {"ts", "ref"} THEN FALSE
    ELSE IF x.t \in {"list", "map"}
    THEN \A i \in DOMAIN x.v : JsonSafe(x.v[i])
    ELSE TRUE

\* the depths at which the value holds a string starting with "ref:"
RECURSIVE RefStringDepths(_, _)
RefStringDepths(x, depth) ==
    IF x.t = "str" THEN (IF startswith(x.v, REF_PREFIX) THEN {depth} ELSE {})
    ELSE IF x.t \in {"list", "map"}
    THEN UNION {RefStringDepths(x.v[i], depth + 1) : i \in DOMAIN x.v}
    ELSE {}

\* C10: a document without timestamp and reference comes back from
\* deserialize(serialize(doc)) as it was; and deserialize leaves what it is
\* given as it is, strings starting with "ref:" included, at every depth,
\* so no reference is rebuilt.
C10_RoundTrip ==
    (tool = "codec" /\ pc = "deserialized") =>
        /\ JsonSafe(doc) => deserialized = doc
        /\ deserialized = serialized
        /\ RefStringDepths(deserialized, 0) = RefStringDepths(serialized, 0)
        /\ JsonSafe(deserialized)

\* a document without timestamp or reference and with a "ref:" string two
\* levels down has come back unchanged
C10_Witness ==
    /\ tool = "codec" /\ pc = "deserialized"
    /\ JsonSafe(doc)
    /\ 2 \in RefStringDepths(doc, 0)
    /\ deserialized = doc

====
